---- MODULE Spec2Model ----
(***************************************************************************)
(* LocalPlanner of agents/navigation/local_planner.py: the long waypoint   *)
(* queue, the short waypoint buffer, plan injection, replenishing by       *)
(* sampling the map, run_step and the operations derived from it.          *)
(*                                                                         *)
(* The map, the vehicle and the low-level controller are external: the map *)
(* is a small fixed waypoint graph, the vehicle location changes by an     *)
(* environment action, the controller answers with any command of a small  *)
(* set.  Locations are points of a line, distances are absolute            *)
(* differences, yaws are whole degrees, throttle and brake are in tenths.  *)
(***************************************************************************)
EXTENDS Integers, Sequences, FiniteSets, TLC

VARIABLES
    waypoints_queue,     \* self._waypoints_queue, deque(maxlen) of (waypoint, RoadOption)
    waypoint_buffer,     \* self.waypoint_buffer
    global_plan,         \* self._global_plan
    target_waypoint,     \* self.target_waypoint (None until the first controlled step);
                         \* self._target_road_option is written with it and never read
    vehicle,             \* location of self._vehicle
    call,                \* the last operation called, with its plan or its number argument
    ret,                 \* <<command>> returned by the last operation, <<>> if it returns none
    ctrl,                \* <<arguments>> of the controller invocation of the last operation, <<>> if none
    err,                 \* exception raised by the last operation, "none" if it returned
    purged,              \* the identities of the entries update_buffer has removed so far
    link,                \* a call of _compute_connection: the two yaws and the RoadOption returned
    horizon              \* the test at the head of run_step, for a deque of some maxlen

vars == <<waypoints_queue, waypoint_buffer, global_plan, target_waypoint,
          vehicle, call, ret, ctrl, err, purged, link, horizon>>

----------------------------------------------------------------------------
(* Bounds of the model.  The program fixes maxlen at 20000 and the buffer   *)
(* size at 20; the model keeps both as parameters and checks small values.  *)

maxlen == 4          \* capacity of the long queue
buffer_size == 3     \* capacity of the short buffer
MaxPlan == 3         \* longest injected plan
MaxK == 3            \* largest k of a direct _compute_next_waypoints call
MaxLoc == 2          \* the vehicle is at one of the locations 0, 2, .., 2 * MaxLoc
MaxId == 8           \* the largest identity given to an entry (SpecId)
MaxYaw == 360        \* the yaw of the next waypoint is one of -MaxYaw..MaxYaw (SpecYaw)
MaxCap == 7          \* the largest maxlen of SpecHorizon

None == 0            \* Python's None (no waypoint, no target speed)

Min(a, b) == IF a < b THEN a ELSE b
Abs(a) == IF a < 0 THEN -a ELSE a
Range(s) == {s[i] : i \in 1..Len(s)}

----------------------------------------------------------------------------
(* The map: four waypoints.  next(w) is w.next(sampling_radius), next3(w)   *)
(* is w.next(3.0).  Waypoint 1 has one continuation, waypoint 2 is a branch *)
(* whose candidates classify differently (3 STRAIGHT, 4 LEFT), waypoint 3 a *)
(* branch whose candidates classify alike (1 and 4, both LEFT), waypoint 4  *)
(* a dead end.                                                              *)

Waypoints == 1..4

location == <<0, 2, 4, 4>>
yaw      == <<120, 0, 0, 100>>

next(w)  == << <<2>>, <<3, 4>>, <<1, 4>>, <<>> >>[w]
next3(w) == << <<1>>, <<2>>, <<3>>, <<4>> >>[w]

\* a (waypoint, RoadOption) tuple.  id is the identity of the tuple object:
\* 0 where identities are not told apart, a number of its own otherwise.
IdEntry(w, o, i) == [wp |-> w, opt |-> o, id |-> i]
Entry(w, o) == IdEntry(w, o, 0)

\* distance of a waypoint to the vehicle location
distance(w, loc) == Abs(location[w] - loc)

min_distance == 2

----------------------------------------------------------------------------
(* _compute_connection and _retrieve_options *)

\* "elif diff_angle >= 90.0"
connection_inclusive(current_yaw, next_yaw) ==
    LET n == next_yaw % 360
        c == current_yaw % 360
        diff_angle == (n - c) % 180
    IN  IF diff_angle < 1 THEN "STRAIGHT"
        ELSE IF diff_angle >= 90 THEN "LEFT"
        ELSE "RIGHT"

\* the body of _compute_connection, on the yaws of its two waypoints
connection(current_yaw, next_yaw) ==
    LET n == next_yaw % 360
        c == current_yaw % 360
        diff_angle == (n - c) % 180
    IN  IF diff_angle < 1 THEN "STRAIGHT"
        ELSE IF diff_angle > 90 THEN "LEFT"
        ELSE "RIGHT"

compute_connection(current_waypoint, next_waypoint) ==
    connection(yaw[current_waypoint], yaw[next_waypoint])

retrieve_options(list_waypoints, current_waypoint) ==
    [i \in 1..Len(list_waypoints) |->
        compute_connection(current_waypoint, next3(list_waypoints[i])[1])]

\* list.index: the first position holding x
index(s, x) == CHOOSE i \in 1..Len(s) : s[i] = x /\ \A j \in 1..(i - 1) : s[j] # x

----------------------------------------------------------------------------
(* deque(maxlen): appending to a full deque discards the entry at the head *)

DequeAppendKeep(q, e) == Append(q, e)

DequeAppend(q, e) ==
    IF Len(q) >= maxlen THEN Append(Tail(q), e) ELSE Append(q, e)

RECURSIVE DequeExtend(_, _)
DequeExtend(q, plan) ==
    IF plan = <<>> THEN q ELSE DequeExtend(DequeAppend(q, Head(plan)), Tail(plan))

----------------------------------------------------------------------------
(* _compute_next_waypoints(k): the set of its outcomes, one per sequence of *)
(* random choices.  An outcome is the queue it leaves and the exception it  *)
(* raised: waypoints_queue[-1] on an empty deque and random.choice on an    *)
(* empty list both raise IndexError.                                        *)

available_entries_off(q) == maxlen - Len(q) + 1

available_entries(q) == maxlen - Len(q)

\* the tuple appended after the last queued one is a new object
NewEntry(q, w, o) ==
    IdEntry(w, o, IF q[Len(q)].id = 0 THEN 0 ELSE q[Len(q)].id + 1)

\* the single-candidate case left out
only_one_option_never(next_waypoints) == FALSE

\* "only one option available ==> lanefollowing"
only_one_option(next_waypoints) == Len(next_waypoints) = 1

RECURSIVE sample(_, _)
sample(q, n) ==
    IF n <= 0 THEN {[q |-> q, err |-> "none"]}
    ELSE IF Len(q) = 0 THEN {[q |-> q, err |-> "IndexError"]}
    ELSE LET last_waypoint == q[Len(q)].wp
             next_waypoints == next(last_waypoint)
         IN  IF only_one_option(next_waypoints)
             THEN sample(DequeAppend(q, NewEntry(q, next_waypoints[1], "LANEFOLLOW")), n - 1)
             ELSE LET road_options_list == retrieve_options(next_waypoints, last_waypoint)
                  IN  IF Len(road_options_list) = 0
                      THEN {[q |-> q, err |-> "IndexError"]}
                      ELSE UNION { sample(DequeAppend(q,
                                       NewEntry(q, next_waypoints[index(road_options_list, o)], o)),
                                              n - 1)
                                   : o \in Range(road_options_list) }

compute_next_waypoints(q, k) == sample(q, Min(available_entries(q), k))

----------------------------------------------------------------------------
(* Commands.  carla.VehicleControl() is all zero and false. *)

Control(s, t, b) ==
    [steer |-> s, throttle |-> t, brake |-> b, hand_brake |-> FALSE, manual_gear_shift |-> FALSE]

HardStop == Control(0, 0, 10)

\* what the PID or MPC controller may answer
ControllerOutputs == {Control(0, 7, 0), Control(2, 0, 3)}

target_speed == 30              \* self._target_speed, the default of init_controller
StepSpeeds == {None, 10}        \* target_speed arguments of run_step

\* the plans a caller injects: the prefixes of one route along the map
Route == <<Entry(2, "LANEFOLLOW"), Entry(3, "STRAIGHT"), Entry(1, "LEFT"),
           Entry(2, "LANEFOLLOW"), Entry(3, "STRAIGHT"), Entry(1, "LEFT")>>
Plans == {SubSeq(Route, 1, n) : n \in 0..Min(MaxPlan, Len(Route))}

----------------------------------------------------------------------------
(* update_buffer: purge the buffer up to the last waypoint within           *)
(* min_distance of the vehicle                                              *)

within(e, loc) == distance(e.wp, loc) < min_distance

\* the first waypoint within min_distance instead of the last
max_index_first(buf, loc) ==
    LET near == {i \in 1..Len(buf) : within(buf[i], loc)}
    IN  IF near = {} THEN 0 ELSE CHOOSE i \in near : \A j \in near : i <= j

max_index(buf, loc) ==
    LET near == {i \in 1..Len(buf) : within(buf[i], loc)}
    IN  IF near = {} THEN 0 ELSE CHOOSE i \in near : \A j \in near : j <= i

\* range(max_index) in place of range(max_index + 1)
update_buffer_short(buf, loc) ==
    SubSeq(buf, IF max_index(buf, loc) = 0 THEN 1 ELSE max_index(buf, loc), Len(buf))

update_buffer(buf, loc) == SubSeq(buf, max_index(buf, loc) + 1, Len(buf))

(* done() *)
done ==
    /\ Len(waypoints_queue) = 0
    /\ \A i \in 1..Len(waypoints_queue) : within(waypoints_queue[i], vehicle)

----------------------------------------------------------------------------
(* run_step(target_speed): the set of its outcomes from the current state   *)

half_capacity == maxlen \div 2          \* int(maxlen * 0.5)

horizon_short_any(gp, q) == Len(q) < half_capacity

\* maxlen * 0.5 without the int()
needs_more_exact(gp, length, capacity) == ~gp /\ 2 * length < capacity

\* not self._global_plan and len(queue) < int(maxlen * 0.5)
needs_more(gp, length, capacity) == ~gp /\ length < capacity \div 2

\* "if not enough waypoints in the horizon, add more"
horizon_short(gp, q) == needs_more(gp, Len(q), maxlen)

\* the buffer tested as well
queue_exhausted_both(q, buf) == Len(q) = 0 /\ Len(buf) = 0

\* "Empty queue"
queue_exhausted(q, buf) == Len(q) = 0

\* the loop not bounded by the room left in the buffer
refill_count_all(q, buf) == Len(q)

refill_count(q, buf) ==
    IF Len(buf) < buffer_size THEN Min(buffer_size - Len(buf), Len(q)) ELSE 0

\* popleft, once for each of the first n entries
queue_after_refill_peek(q, n) == q

queue_after_refill(q, n) == SubSeq(q, n + 1, Len(q))

\* gone: the entries update_buffer has popped
Outcome(q, buf, tw, r, c, e, gone) ==
    [q |-> q, buf |-> buf, tw |-> tw, ret |-> r, ctrl |-> c, err |-> e, gone |-> gone]

run_step_outcomes(ts) ==
    LET sampled == IF horizon_short(global_plan, waypoints_queue)
                   THEN compute_next_waypoints(waypoints_queue, 100)
                   ELSE {[q |-> waypoints_queue, err |-> "none"]}
    IN  UNION {
          IF s.err # "none"
          THEN {Outcome(s.q, waypoint_buffer, target_waypoint,
                        <<>>, <<>>, s.err, <<>>)}
          ELSE IF queue_exhausted(s.q, waypoint_buffer)
          THEN {Outcome(s.q, waypoint_buffer, target_waypoint,
                        <<HardStop>>, <<>>, "none", <<>>)}
          ELSE LET n    == refill_count(s.q, waypoint_buffer)
                   buf  == waypoint_buffer \o SubSeq(s.q, 1, n)
                   q    == queue_after_refill(s.q, n)
                   speed == IF ts = None THEN target_speed ELSE ts
                   args == [target_speed |-> speed,
                            waypoints |-> [i \in 1..Len(buf) |-> buf[i].wp],
                            target_waypoint |-> buf[1].wp]
               IN  {Outcome(q, update_buffer(buf, vehicle), buf[1].wp,
                            <<c>>, <<args>>, "none",
                            SubSeq(buf, 1, max_index(buf, vehicle))) : c \in ControllerOutputs}
          : s \in sampled }

\* the state an outcome of run_step leaves, the command possibly altered
Leave(o, name, arg, command) ==
    /\ waypoints_queue' = o.q
    /\ waypoint_buffer' = o.buf
    /\ target_waypoint' = o.tw
    /\ ret' = (IF o.err = "none" THEN <<command>> ELSE <<>>)
    /\ ctrl' = o.ctrl
    /\ err' = o.err
    /\ call' = [op |-> name, plan |-> <<>>, arg |-> arg]
    /\ UNCHANGED <<global_plan, vehicle, purged, link, horizon>>

NoLink == [current |-> 0, next |-> 0, option |-> "VOID"]
NoHorizon == [maxlen |-> maxlen, short |-> "untested"]

----------------------------------------------------------------------------
(* The state after construction: the vehicle stands at waypoint 1, the      *)
(* queue holds the first waypoint ahead and what _compute_next_waypoints    *)
(* (k=200) added to it.                                                     *)

Init ==
    /\ vehicle = location[1]
    /\ \E s \in compute_next_waypoints(<<Entry(next(1)[1], "LANEFOLLOW")>>, 200) :
          /\ s.err = "none"
          /\ waypoints_queue = s.q
    /\ waypoint_buffer = <<>>
    /\ global_plan = FALSE
    /\ target_waypoint = None
    /\ call = [op |-> "init", plan |-> <<>>, arg |-> None]
    /\ ret = <<>>
    /\ ctrl = <<>>
    /\ err = "none"
    /\ purged = {}
    /\ link = NoLink
    /\ horizon = NoHorizon

compute_next_waypoints_call ==
    /\ err = "none"
    /\ \E k \in 0..MaxK :
          /\ \E s \in compute_next_waypoints(waypoints_queue, k) :
                /\ waypoints_queue' = s.q
                /\ err' = s.err
          /\ call' = [op |-> "compute_next_waypoints", plan |-> <<>>, arg |-> k]
    /\ ret' = <<>> /\ ctrl' = <<>>
    /\ UNCHANGED <<waypoint_buffer, global_plan, target_waypoint, vehicle, purged, link, horizon>>

set_local_plan ==
    /\ err = "none"
    /\ \E local_plan \in Plans :
          /\ waypoints_queue' = DequeExtend(<<>>, local_plan)
          /\ call' = [op |-> "set_local_plan", plan |-> local_plan, arg |-> None]
    /\ global_plan' = FALSE
    /\ ret' = <<>> /\ ctrl' = <<>> /\ err' = "none"
    /\ UNCHANGED <<waypoint_buffer, target_waypoint, vehicle, purged, link, horizon>>

add_global_plan ==
    /\ err = "none"
    /\ \E current_plan \in Plans :
          /\ waypoints_queue' = DequeExtend(waypoints_queue, current_plan)
          /\ call' = [op |-> "add_global_plan", plan |-> current_plan, arg |-> None]
    /\ global_plan' = TRUE
    /\ ret' = <<>> /\ ctrl' = <<>> /\ err' = "none"
    /\ UNCHANGED <<waypoint_buffer, target_waypoint, vehicle, purged, link, horizon>>

set_global_plan ==
    /\ err = "none"
    /\ \E current_plan \in Plans :
          /\ waypoints_queue' = DequeExtend(<<>>, current_plan)
          /\ call' = [op |-> "set_global_plan", plan |-> current_plan, arg |-> None]
    /\ global_plan' = TRUE
    /\ ret' = <<>> /\ ctrl' = <<>> /\ err' = "none"
    /\ UNCHANGED <<waypoint_buffer, target_waypoint, vehicle, purged, link, horizon>>

run_step ==
    /\ err = "none"
    /\ \E ts \in StepSpeeds : \E o \in run_step_outcomes(ts) :
          Leave(o, "run_step", ts, IF o.err = "none" THEN o.ret[1] ELSE HardStop)

\* a stop command built without running the step
soft_stop_bypass ==
    /\ err = "none"
    /\ ret' = <<Control(0, 0, 1)>>
    /\ ctrl' = <<>>
    /\ err' = "none"
    /\ call' = [op |-> "soft_stop", plan |-> <<>>, arg |-> None]
    /\ UNCHANGED <<waypoints_queue, waypoint_buffer, global_plan, target_waypoint, vehicle,
                   purged, link, horizon>>

soft_stop ==
    /\ err = "none"
    /\ \E o \in run_step_outcomes(None) :
          Leave(o, "soft_stop", None,
                IF o.err = "none" THEN [o.ret[1] EXCEPT !.throttle = 0, !.brake = 1]
                ELSE HardStop)

brake ==
    /\ err = "none"
    /\ \E o \in run_step_outcomes(None) :
          Leave(o, "brake", None,
                IF o.err = "none" THEN [o.ret[1] EXCEPT !.throttle = 0, !.brake = 10]
                ELSE HardStop)

empty_control ==
    /\ err = "none"
    /\ \E o \in run_step_outcomes(None) :
          Leave(o, "empty_control", None,
                IF o.err = "none" THEN [o.ret[1] EXCEPT !.throttle = 0] ELSE HardStop)

VehicleLocations == {2 * i : i \in 0..MaxLoc}

\* the vehicle drives on: the environment changes its location
vehicle_moves ==
    /\ err = "none"
    /\ \E loc \in VehicleLocations :
          /\ loc # vehicle
          /\ vehicle' = loc
          /\ call' = [op |-> "vehicle_moves", plan |-> <<>>, arg |-> loc]
    /\ ret' = <<>> /\ ctrl' = <<>> /\ err' = "none"
    /\ UNCHANGED <<waypoints_queue, waypoint_buffer, global_plan, target_waypoint, purged, link, horizon>>

Next ==
    \/ compute_next_waypoints_call
    \/ set_local_plan
    \/ add_global_plan
    \/ set_global_plan
    \/ run_step
    \/ soft_stop
    \/ brake
    \/ empty_control
    \/ vehicle_moves

Spec == Init /\ [][Next]_vars

----------------------------------------------------------------------------
(* The planner with every queue entry told apart: the stretch of run_step   *)
(* calls that follows the construction or one plan injection.  The injected *)
(* tuples are numbered in order, a sampled tuple takes the next number.     *)

Number(plan) == [i \in 1..Len(plan) |-> [plan[i] EXCEPT !.id = i]]

Ids(entries) == {entries[i].id : i \in 1..Len(entries)}

IdInit ==
    /\ vehicle = location[1]
    /\ waypoint_buffer = <<>>
    /\ target_waypoint = None
    /\ ret = <<>>
    /\ ctrl = <<>>
    /\ err = "none"
    /\ purged = {}
    /\ link = NoLink
    /\ horizon = NoHorizon
    /\ \/ /\ \E s \in compute_next_waypoints(<<IdEntry(next(1)[1], "LANEFOLLOW", 1)>>, 200) :
                /\ s.err = "none"
                /\ waypoints_queue = s.q
          /\ global_plan = FALSE
          /\ call = [op |-> "init", plan |-> <<>>, arg |-> None]
       \/ \E plan \in Plans :
             /\ waypoints_queue = DequeExtend(<<>>, Number(plan))
             /\ \/ global_plan = TRUE  /\ call = [op |-> "set_global_plan", plan |-> Number(plan), arg |-> None]
                \/ global_plan = FALSE /\ call = [op |-> "set_local_plan", plan |-> Number(plan), arg |-> None]

id_run_step ==
    /\ err = "none"
    /\ \E ts \in StepSpeeds : \E o \in run_step_outcomes(ts) :
          /\ \A i \in Ids(o.q) \cup Ids(o.buf) \cup Ids(o.gone) : i <= MaxId
          /\ waypoints_queue' = o.q
          /\ waypoint_buffer' = o.buf
          /\ target_waypoint' = o.tw
          /\ ret' = o.ret
          /\ ctrl' = o.ctrl
          /\ err' = o.err
          /\ call' = [op |-> "run_step", plan |-> <<>>, arg |-> ts]
          /\ purged' = purged \cup Ids(o.gone)
    /\ UNCHANGED <<global_plan, vehicle, link, horizon>>

IdNext ==
    \/ id_run_step
    \/ vehicle_moves

SpecId == IdInit /\ [][IdNext]_vars

----------------------------------------------------------------------------
(* The planner following an injected plan: set_global_plan and               *)
(* add_global_plan have been called, then run_step is called tick after     *)
(* tick, and at every step the vehicle is within min_distance of an entry   *)
(* of the buffer the step purges, if that buffer holds any.                 *)

\* the buffer update_buffer works on in a step from the current state
refilled_buffer ==
    waypoint_buffer \o SubSeq(waypoints_queue, 1, refill_count(waypoints_queue, waypoint_buffer))

NearBuffer(loc) ==
    refilled_buffer = <<>> \/ \E i \in 1..Len(refilled_buffer) : within(refilled_buffer[i], loc)

ExtInit ==
    /\ vehicle \in VehicleLocations
    /\ \E first \in Plans : \E second \in Plans :
          /\ waypoints_queue = DequeExtend(DequeExtend(<<>>, first), second)
          /\ call = [op |-> "add_global_plan", plan |-> second, arg |-> None]
    /\ waypoint_buffer = <<>>
    /\ global_plan = TRUE
    /\ target_waypoint = None
    /\ ret = <<>>
    /\ ctrl = <<>>
    /\ err = "none"
    /\ purged = {}
    /\ link = NoLink
    /\ horizon = NoHorizon
    /\ NearBuffer(vehicle)

ext_run_step == NearBuffer(vehicle) /\ run_step

ext_vehicle_moves == vehicle_moves /\ NearBuffer(vehicle')

ExtNext ==
    \/ ext_run_step
    \/ ext_vehicle_moves

\* run_step is called once per control cycle
SpecExt == ExtInit /\ [][ExtNext]_vars /\ WF_vars(ext_run_step) /\ WF_vars(ext_vehicle_moves)

----------------------------------------------------------------------------
(* _compute_connection on its own: yaws are drawn, the function is applied. *)
(* It is a module-level function, no planner is involved.                   *)

CurrentYaws == {-90, 0, 1, 179, 359, 450}
NextYaws == (0 - MaxYaw)..MaxYaw

NoPlanner ==
    /\ waypoints_queue = <<>>
    /\ waypoint_buffer = <<>>
    /\ global_plan = FALSE
    /\ target_waypoint = None
    /\ vehicle = 0
    /\ call = [op |-> "compute_connection", plan |-> <<>>, arg |-> None]
    /\ ret = <<>>
    /\ ctrl = <<>>
    /\ err = "none"
    /\ purged = {}

YawInit ==
    /\ NoPlanner
    /\ horizon = NoHorizon
    /\ \E c \in CurrentYaws : \E n \in NextYaws :
          link = [current |-> c, next |-> n, option |-> "VOID"]

compute_connection_call ==
    /\ link.option = "VOID"
    /\ link' = [link EXCEPT !.option = connection(link.current, link.next)]
    /\ UNCHANGED <<waypoints_queue, waypoint_buffer, global_plan, target_waypoint,
                   vehicle, call, ret, ctrl, err, purged, horizon>>

YawNext == compute_connection_call

SpecYaw == YawInit /\ [][YawNext]_vars

----------------------------------------------------------------------------
(* The test at the head of run_step on its own: a mode, a queue length and  *)
(* a deque capacity are drawn, the test is applied.                         *)

HorizonInit ==
    /\ waypoint_buffer = <<>>
    /\ target_waypoint = None
    /\ vehicle = 0
    /\ call = [op |-> "run_step", plan |-> <<>>, arg |-> None]
    /\ ret = <<>>
    /\ ctrl = <<>>
    /\ err = "none"
    /\ purged = {}
    /\ link = NoLink
    /\ global_plan \in BOOLEAN
    /\ \E capacity \in 1..MaxCap : \E length \in 0..capacity :
          /\ waypoints_queue = [i \in 1..length |-> Entry(1, "LANEFOLLOW")]
          /\ horizon = [maxlen |-> capacity, short |-> "untested"]

horizon_test ==
    /\ horizon.short = "untested"
    /\ horizon' = [horizon EXCEPT !.short =
                      IF needs_more(global_plan, Len(waypoints_queue), horizon.maxlen)
                      THEN "yes" ELSE "no"]
    /\ UNCHANGED <<waypoints_queue, waypoint_buffer, global_plan, target_waypoint,
                   vehicle, call, ret, ctrl, err, purged, link>>

HorizonNext == horizon_test

SpecHorizon == HorizonInit /\ [][HorizonNext]_vars

----------------------------------------------------------------------------
(* Properties *)

IsPrefix(s, t) == Len(s) <= Len(t) /\ SubSeq(t, 1, Len(s)) = s
IsSuffix(s, t) == Len(s) <= Len(t) /\ SubSeq(t, Len(t) - Len(s) + 1, Len(t)) = s

StepOps == {"run_step", "soft_stop", "brake", "empty_control"}

\* C1: a run_step called with the long queue and the short buffer both empty,
\* in either plan mode and for every target speed, raises nothing and returns
\* the hard-stop command.
C1_EmptyPlannerStops ==
    [][(call'.op = "run_step" /\ waypoints_queue = <<>> /\ waypoint_buffer = <<>>)
          => (err' = "none" /\ ret' = <<HardStop>>)]_vars

\* C2: done() is true exactly when the long queue is empty and every entry of
\* the short buffer is within min_distance of the vehicle.
C2_DoneIffQueueEmptyAndBufferNear ==
    done <=> (/\ waypoints_queue = <<>>
              /\ \A i \in 1..Len(waypoint_buffer) : within(waypoint_buffer[i], vehicle))

\* C3: right after set_local_plan or set_global_plan the short buffer is empty
\* and the long queue holds exactly the injected entries, in order.
C3_InjectionClearsQueueAndBuffer ==
    [][call'.op \in {"set_local_plan", "set_global_plan"}
          => (waypoint_buffer' = <<>> /\ waypoints_queue' = call'.plan)]_vars

\* C4: a _compute_next_waypoints call that meets a waypoint without candidates
\* stops early (it appends fewer entries than asked for), raises nothing and
\* keeps the entries queued so far.
C4_DeadEndStopsQuietly ==
    [][(/\ call'.op = "compute_next_waypoints"
        /\ waypoints_queue # <<>>
        /\ Len(waypoints_queue') - Len(waypoints_queue)
              < Min(call'.arg, maxlen - Len(waypoints_queue)))
          => (err' = "none" /\ IsPrefix(waypoints_queue, waypoints_queue'))]_vars

\* C5: after set_global_plan with the three entries of Route3 and an empty
\* buffer, three run_step calls, the vehicle being within min_distance of the
\* i-th waypoint only before the i-th call, leave the buffer with 2, 1 and 0
\* entries, and done() is false after the first two and true after the third.
Route3 == SubSeq(Route, 1, 3)

OnlyNear(i) ==
    \A j \in 1..3 : within(Route3[j], vehicle) <=> (j = i)

C5_ThreeStepScenario ==
    [][call'.op = "run_step" =>
        /\ (global_plan /\ waypoints_queue = Route3 /\ waypoint_buffer = <<>> /\ OnlyNear(1))
              => (Len(waypoint_buffer') = 2 /\ ~done')
        /\ (global_plan /\ waypoints_queue = <<>> /\ waypoint_buffer = SubSeq(Route3, 2, 3)
                /\ OnlyNear(2))
              => (Len(waypoint_buffer') = 1 /\ ~done')
        /\ (global_plan /\ waypoints_queue = <<>> /\ waypoint_buffer = SubSeq(Route3, 3, 3)
                /\ OnlyNear(3))
              => (Len(waypoint_buffer') = 0 /\ done')]_vars

\* C6: add_global_plan and _compute_next_waypoints only append at the tail of
\* the long queue: every entry queued before the call is still queued, in
\* place, after it.
C6_AppendNeverDiscards ==
    [][call'.op \in {"add_global_plan", "compute_next_waypoints"}
          => IsPrefix(waypoints_queue, waypoints_queue')]_vars

\* C7: the long queue never holds more than maxlen entries.
C7_QueueWithinCapacity == Len(waypoints_queue) <= maxlen

\* a direct _compute_next_waypoints(MaxK) has filled the queue to capacity
C7_Witness ==
    /\ call.op = "compute_next_waypoints" /\ call.arg = MaxK
    /\ err = "none"
    /\ Len(waypoints_queue) = maxlen

\* C8: on a non-empty queue _compute_next_waypoints(k) keeps the queued
\* entries in place and appends exactly min(k, maxlen - len) entries, unless
\* it met a waypoint without continuation.
C8_AppendsExactlyMin ==
    [][(call'.op = "compute_next_waypoints" /\ waypoints_queue # <<>>)
          => /\ IsPrefix(waypoints_queue, waypoints_queue')
             /\ \/ /\ err' = "none"
                   /\ Len(waypoints_queue') - Len(waypoints_queue)
                         = Min(call'.arg, maxlen - Len(waypoints_queue))
                \/ /\ err' # "none"
                   /\ next(waypoints_queue'[Len(waypoints_queue')].wp) = <<>>]_vars

\* _compute_next_waypoints(2) has appended two entries without reaching capacity
C8_Witness ==
    /\ call.op = "compute_next_waypoints" /\ call.arg = 2
    /\ err = "none"
    /\ Len(waypoints_queue) = 3

\* C9: when the last queued waypoint is a branch (more than one candidate) and
\* the queue has room, every candidate, paired with its own road option, is
\* appended by some outcome of _compute_next_waypoints(1).
C9_EveryCandidateSelectable ==
    (waypoints_queue # <<>> /\ Len(waypoints_queue) < maxlen) =>
        LET last_waypoint == waypoints_queue[Len(waypoints_queue)].wp
            candidates == next(last_waypoint)
            options == retrieve_options(candidates, last_waypoint)
        IN  Len(candidates) > 1 =>
              \A i \in 1..Len(candidates) :
                 \E s \in compute_next_waypoints(waypoints_queue, 1) :
                    /\ s.err = "none"
                    /\ s.q = Append(waypoints_queue, Entry(candidates[i], options[i]))

\* C10: while _global_plan is set, run_step, soft_stop, brake and empty_control
\* append nothing to the long queue: what they leave is a suffix of what they
\* found.
C10_ExternalModeNeverSamples ==
    [][(global_plan /\ call'.op \in StepOps)
          => (global_plan' /\ IsSuffix(waypoints_queue', waypoints_queue))]_vars

\* in external mode a step has moved the last queued entries to the buffer
\* and called the controller, leaving the queue below half capacity
C10_Witness ==
    /\ global_plan
    /\ call.op \in StepOps
    /\ ctrl # <<>>
    /\ Len(waypoints_queue) < half_capacity

\* C11: with every entry told apart, an entry that update_buffer has removed
\* is in no later state in the short buffer or in the long queue (and no
\* identity is there twice).
C11_PurgedNeverReturns ==
    LET held == waypoint_buffer \o waypoints_queue
    IN  /\ \A i \in 1..Len(held) : held[i].id \notin purged
        /\ \A i, j \in 1..Len(held) : held[i].id = held[j].id => i = j

\* several entries have been purged, and a controlled step has left further
\* entries in the buffer and in the queue
C11_Witness ==
    /\ Cardinality(purged) >= 2
    /\ call.op = "run_step"
    /\ ctrl # <<>>
    /\ waypoint_buffer # <<>>
    /\ waypoints_queue # <<>>

\* C12: following an injected plan with the vehicle always near an entry of
\* the buffer, the run_step calls eventually empty the long queue, and every
\* run_step that finds the long queue empty returns the hard-stop command and
\* leaves it empty.
C12_PlanIsConsumed ==
    /\ <>(waypoints_queue = <<>>)
    /\ [][(waypoints_queue = <<>> /\ call'.op = "run_step")
             => (ret' = <<HardStop>> /\ waypoints_queue' = <<>>)]_vars

\* a plan longer than the buffer has been consumed and the step after it
\* has returned the hard stop
C12_Witness ==
    /\ global_plan
    /\ waypoints_queue = <<>>
    /\ target_waypoint # None
    /\ call.op = "run_step"
    /\ ret = <<HardStop>>

\* C13: with d the member of 0..179 that differs from next yaw - current yaw
\* by a multiple of 180, _compute_connection returns STRAIGHT when d < 1, LEFT
\* when d > 90 and RIGHT otherwise (so at d = 1 and at d = 90), and nothing else.
DiffAngle == CHOOSE d \in 0..179 : \E m \in -8..8 : link.next - link.current = d + 180 * m

C13_ConnectionByDiffAngle ==
    link.option # "VOID" =>
        /\ link.option \in {"STRAIGHT", "LEFT", "RIGHT"}
        /\ (link.option = "STRAIGHT") <=> (DiffAngle < 1)
        /\ (link.option = "LEFT") <=> (DiffAngle > 90)
        /\ (link.option = "RIGHT") <=> (1 <= DiffAngle /\ DiffAngle <= 90)

\* the boundary of exactly 90 degrees, from a negative current yaw, is RIGHT
C13_Witness ==
    /\ link.option = "RIGHT"
    /\ link.current = -90
    /\ link.next = 0

\* C14: every entry a _compute_next_waypoints call appends after a waypoint
\* with exactly one candidate is that candidate tagged LANEFOLLOW.
C14_SingleCandidateLaneFollow ==
    [][(call'.op = "compute_next_waypoints" /\ waypoints_queue # <<>>)
          => \A i \in (Len(waypoints_queue) + 1)..Len(waypoints_queue') :
                LET candidates == next(waypoints_queue'[i - 1].wp)
                IN  Len(candidates) = 1
                       => waypoints_queue'[i] = Entry(candidates[1], "LANEFOLLOW")]_vars

\* _compute_next_waypoints(1) on a queue holding waypoint 1 alone has appended
\* waypoint 2, the one candidate of waypoint 1
C14_Witness ==
    /\ call.op = "compute_next_waypoints" /\ call.arg = 1
    /\ err = "none"
    /\ waypoints_queue = <<Entry(1, "LEFT"), Entry(2, "LANEFOLLOW")>>

\* C15: run_step takes the hard-stop fallback only when the long queue and
\* the short buffer are both empty; with the long queue empty and the buffer
\* not, it targets the buffer head, calls the controller with the buffer
\* window and purges the buffer.
C15_StopOnlyWhenBothEmpty ==
    [][call'.op = "run_step" =>
        /\ (err' = "none" /\ ctrl' = <<>>)
              => (waypoints_queue = <<>> /\ waypoint_buffer = <<>>)
        /\ (err' = "none" /\ waypoints_queue = <<>> /\ waypoint_buffer # <<>>)
              => /\ ctrl' # <<>>
                 /\ target_waypoint' = waypoint_buffer[1].wp
                 /\ ctrl'[1].waypoints = [i \in 1..Len(waypoint_buffer) |-> waypoint_buffer[i].wp]
                 /\ waypoint_buffer' = update_buffer(waypoint_buffer, vehicle)]_vars

\* C16: a step that calls the controller purges from the buffer it handed
\* over exactly the entries up to the last one whose waypoint is strictly
\* within min_distance of the vehicle, whether the entries before it are
\* within or not; with no entry within it purges nothing; what remains keeps
\* its order.
C16_PurgeUpToLastNear ==
    [][(call'.op \in StepOps /\ ctrl' # <<>>) =>
        LET window == ctrl'[1].waypoints
            near == {i \in 1..Len(window) : Abs(location[window[i]] - vehicle) < min_distance}
            kept == [i \in 1..Len(waypoint_buffer') |-> waypoint_buffer'[i].wp]
        IN  /\ near = {} => kept = window
            /\ \A m \in near :
                  (\A j \in near : j <= m) => kept = SubSeq(window, m + 1, Len(window))]_vars

\* the buffer held waypoints 2, 3, 2 with the vehicle at waypoint 2: the
\* last entry is within min_distance, the middle one is not, all three are gone
C16_Witness ==
    /\ call.op \in StepOps
    /\ ctrl # <<>>
    /\ ctrl[1].waypoints = <<2, 3, 2>>
    /\ vehicle = location[2]
    /\ waypoint_buffer = <<>>

\* C17: in a step that calls the controller, the refill moves exactly
\* min(buffer_size - len(buffer), len(queue)) entries from the head of the
\* long queue (as sampling left it) to the tail of the buffer, in order: the
\* buffer never exceeds buffer_size, and buffer ++ queue is the same sequence
\* before and after the refill.
C17_RefillMovesQueueHead ==
    [][(call'.op \in StepOps /\ ctrl' # <<>>) =>
        LET window == ctrl'[1].waypoints
            moved  == Len(window) - Len(waypoint_buffer)
            gone   == Len(window) - Len(waypoint_buffer')
            before == waypoint_buffer \o waypoints_queue
            after  == waypoint_buffer' \o waypoints_queue'
        IN  /\ moved = Min(buffer_size - Len(waypoint_buffer), moved + Len(waypoints_queue'))
            /\ Len(window) <= buffer_size
            /\ gone >= 0
            /\ Len(before) <= gone + Len(after)
            /\ \A i \in 1..Len(before) :
                  /\ i <= Len(window) => window[i] = before[i].wp
                  /\ i > gone => after[i - gone] = before[i]]_vars

\* the refill has filled the buffer and left entries in the long queue
C17_Witness ==
    /\ call.op \in StepOps
    /\ ctrl # <<>>
    /\ Len(ctrl[1].waypoints) = buffer_size
    /\ waypoints_queue # <<>>
    /\ target_waypoint # None

C19_DerivedStepsRunTheStep ==
    [][call'.op \in {"soft_stop", "brake", "empty_control"} =>
        \E o \in run_step_outcomes(None) :
           /\ waypoints_queue' = o.q
           /\ waypoint_buffer' = o.buf
           /\ target_waypoint' = o.tw
           /\ global_plan' = global_plan
           /\ ctrl' = o.ctrl
           /\ \A i \in 1..Len(ctrl') : ctrl'[i].target_speed = target_speed
           /\ err' = o.err
           /\ Len(ret') = Len(o.ret)
           /\ \A i \in 1..Len(ret') :
                 /\ ret'[i].steer = o.ret[i].steer
                 /\ ret'[i].hand_brake = o.ret[i].hand_brake
                 /\ ret'[i].manual_gear_shift = o.ret[i].manual_gear_shift
                 /\ ret'[i].throttle = 0
                 /\ ret'[i].brake = (CASE call'.op = "soft_stop" -> 1
                                       [] call'.op = "brake" -> 10
                                       [] OTHER -> o.ret[i].brake)]_vars

\* a soft_stop has called the controller, purged the buffer and returned the
\* controller's steer with the brake at 0.1
C19_Witness ==
    /\ call.op = "soft_stop"
    /\ ctrl # <<>>
    /\ Len(waypoint_buffer) < Len(ctrl[1].waypoints)
    /\ ret = <<Control(2, 0, 1)>>

\* C20: with a global plan and the long queue empty, every run_step returns
\* the hard-stop command, calls no controller, raises nothing and leaves the
\* long queue, the short buffer and the target waypoint as they were.
C20_ExhaustedPlanIsAbsorbing ==
    [][(global_plan /\ waypoints_queue = <<>> /\ call'.op = "run_step")
          => /\ ret' = <<HardStop>>
             /\ ctrl' = <<>>
             /\ err' = "none"
             /\ UNCHANGED <<waypoints_queue, waypoint_buffer, target_waypoint, global_plan>>]_vars

\* a run_step has returned the hard stop while the buffer still holds entries
C20_Witness ==
    /\ global_plan
    /\ waypoints_queue = <<>>
    /\ waypoint_buffer # <<>>
    /\ call.op = "run_step"
    /\ ret = <<HardStop>>

====
